---- MODULE Spec2Model ----
(***************************************************************************)
(* Verification model of the scheduling-and-concurrency layer of           *)
(* ao-no-out7ook:                                                          *)
(*   - src/src/state.rs          with_state_lock, State::load, State::save *)
(*   - src/src/devops/client.rs  update_work_item(_with_rev)               *)
(*   - src/src/graph/scheduler.rs round_to_next_interval, find_gaps,       *)
(*                                find_next_slot                           *)
(* The specifications SpecLock, SpecRev, SpecGaps, SpecSlot and SpecRound  *)
(* share the variables; each leaves the variables of the other parts       *)
(* untouched.                                                              *)
(***************************************************************************)
EXTENDS Integers, Sequences, FiniteSets, TLC

VARIABLES
    \* ---- state.rs: the lock file, the state file and the callers ----
    pc,          \* pc[p]: position of process p inside with_state_lock
    holders,     \* processes holding the exclusive flock on lock_path
    stateFile,   \* content at state_path
    tmpFile,     \* content at state_path.with_extension("tmp")
    state,       \* state[p]: the in-memory document `state` of p
    result,      \* result[p]: the closure's result `result`
    ret,         \* ret[p]: what with_state_lock returned to p
    pre,         \* pre[p]: state file content when p acquired the lock
    post,        \* post[p]: state file content when p returned
    committed,   \* processes whose marking transaction was renamed into place
    seen,        \* what the latest State::load outside the lock found
    \* ---- devops/client.rs: the remote record and one guarded update ----
    remote,      \* remote[id]: the work item held by the server
    entry,       \* the function the caller invoked
    gpc,         \* position inside update_work_item_with_rev
    gid,         \* argument id
    expected_rev, \* argument expected_rev (NoRev for None)
    current,     \* current.rev of the re-fetched work item (NoRev before it)
    requests,    \* requests issued by the call, in order
    patches,     \* PATCH requests as the server handled them
    gret,        \* what the call returned
    edits,       \* number of external edits so far
    \* ---- graph/scheduler.rs: one call of find_gaps / find_next_slot ----
    events,      \* argument events
    win,         \* find_gaps arguments start_time, end_time
    gaps,        \* value returned by find_gaps
    now,         \* argument now
    duration_mins, \* argument duration_mins
    work_hours,  \* argument work_hours
    spc,         \* position inside find_next_slot
    search_start, \* local search_start
    search_day,  \* local search_day
    iter,        \* iterations of `for _ in 0..7` completed
    windows,     \* the (actual_start, day_end) pairs handed to find_gaps
    slot,        \* value returned by find_next_slot
    \* ---- graph/scheduler.rs: calls of round_to_next_interval ----
    times,       \* the arguments `time` of two calls, earliest first
    rounded,     \* the values the two calls returned
    rerounded,   \* the values returned for the returned values
    rpc,         \* how far the calls have got
    \* ---- pace/retry.rs: one call of with_retry ----
    max_retries, \* argument max_retries
    attempt,     \* local attempt
    invocations, \* what each invocation of operation returned, in order
    slept,       \* milliseconds spent in sleep so far
    wret,        \* what with_retry returned
    wpc,         \* "loop" while inside the loop, "done" after the return
    \* ---- state.rs: the calendar mappings of one State ----
    calendar_mappings, \* field calendar_mappings
    latest,      \* latest[id]: event of the last upsert of id not yet removed
    removed,     \* the last remove_calendar_mapping: its id, its result, and
                 \* whether id was mapped before it
    nops,        \* number of calls so far
    \* ---- commands/devops.rs: one run of update ----
    update_args, \* arguments assigned_to, priority, tags, dry_run, and whether
                 \* config.devops.pat is set
    item_rev,    \* item.rev of the work item fetched first
    operations,  \* the JSON Patch operations built
    bodies,      \* the bodies of the PATCH requests sent, in order
    upc,         \* position inside update
    uret,        \* what update returned
    \* ---- commands/task.rs start and commands/checkin.rs checkin ----
    disk,         \* state.json as persisted: absent, or a document with its
                  \* current_task
    timer,        \* the timer the 7pace server has running, if any
    calls,        \* the remote requests issued, in order, and by which command
    focus_blocks, \* the calendar events created, and by which command
    warnings,     \* the warnings printed, and by which command
    start_cmd,    \* one run of task start: arguments, position, locals, result
    checkin_cmd   \* one run of checkin: position, locals, result

lockVars == <<pc, holders, stateFile, tmpFile, state, result, ret, pre, post, committed,
              seen>>
revVars == <<remote, entry, gpc, gid, expected_rev, current, requests, patches, gret, edits>>
schedVars == <<events, win, gaps, now, duration_mins, work_hours, spc, search_start,
               search_day, iter, windows, slot>>
roundVars == <<times, rounded, rerounded, rpc>>
retryVars == <<max_retries, attempt, invocations, slept, wret, wpc>>
mapVars == <<calendar_mappings, latest, removed, nops>>
updVars == <<update_args, item_rev, operations, bodies, upc, uret>>
cmdVars == <<disk, timer, calls, focus_blocks, warnings, start_cmd, checkin_cmd>>
vars == <<lockVars, revVars, schedVars, roundVars, retryVars, mapVars, updVars, cmdVars>>

\* ------------------------------------------------------------------ bounds
NumProcs == 2
MaxEdits == 2
MaxEvents == 2
MaxRetries == 4
MaxOps == 4

Procs == 1..NumProcs

(***************************************************************************)
(*                      state.rs : with_state_lock                         *)
(***************************************************************************)

\* A document is the set of marks the closures left in it; State::default()
\* carries none.
DefaultState == [marks |-> {}]

Absent == [kind |-> "absent", doc |-> DefaultState]
Empty == [kind |-> "empty", doc |-> DefaultState]
Corrupt == [kind |-> "corrupt", doc |-> DefaultState]
Partial == [kind |-> "partial", doc |-> DefaultState]

\* serde_json::to_string_pretty(self)
Serialize(doc) == [kind |-> "json", doc |-> doc]

\* State::load: default for a missing or blank file, the parsed document for
\* JSON, an error for anything else.
LoadOk(content) == content.kind \in {"absent", "empty", "json"}

LoadDefaultOnly(content) == DefaultState

Load(content) == IF content.kind = "json" THEN content.doc ELSE DefaultState

NoRet == [kind |-> "none", value |-> "none"]
Ok(v) == [kind |-> "ok", value |-> v]
Err(e) == [kind |-> "err", value |-> e]

\* What find_next_slot returns: nothing yet, Ok((slot_start, slot_end)), or
\* one of its errors
NoSlot == [kind |-> "none", start |-> 0, end |-> 0]
OkSlot(slot_start, slot_end) == [kind |-> "ok", start |-> slot_start, end |-> slot_end]
SlotErr(e) == [kind |-> e, start |-> 0, end |-> 0]

\* What a reader outside the lock found: nothing yet, or the content of the
\* state file at the instant of its read, next to the documents of the
\* transaction in progress at that instant (the file before it, and the file
\* as the transaction has left it so far)
NoRead == [content |-> Absent, pre |-> Absent, post |-> Absent, read |-> FALSE]
Read(content, before, after) ==
    [content |-> content, pre |-> before, post |-> after, read |-> TRUE]

\* file.lock_exclusive(): flock grants the exclusive lock only when no other
\* open file description holds one.
CanLockFree(p) == TRUE

CanLock(p) == holders \ {p} = {}

\* Dropping `file` closes the descriptor, which gives up its flock.
DropFileLeak(p) == holders

DropFile(p) == holders \ {p}

\* `if result.is_ok()` guarding state.save
ShouldSaveAlways(p) == TRUE

ShouldSave(p) == result[p] = "ok"

\* An early `?` return: the error goes to the caller and `file` is dropped.
Bail(p, e) ==
    /\ pc' = [pc EXCEPT ![p] = "done"]
    /\ ret' = [ret EXCEPT ![p] = Err(e)]
    /\ post' = [post EXCEPT ![p] = stateFile]
    /\ holders' = DropFile(p)

\* create_dir_all(parent) and OpenOptions::open(lock_path)
OpenLock(p, ok) ==
    /\ pc[p] = "start"
    /\ IF ok
       THEN /\ pc' = [pc EXCEPT ![p] = "opened"]
            /\ UNCHANGED <<holders, ret, post>>
       ELSE /\ pc' = [pc EXCEPT ![p] = "done"]
            /\ ret' = [ret EXCEPT ![p] = Err("open")]
            /\ post' = [post EXCEPT ![p] = stateFile]
            /\ UNCHANGED holders
    /\ UNCHANGED <<stateFile, tmpFile, state, result, pre, committed>>
    /\ UNCHANGED <<seen, revVars, schedVars, roundVars, retryVars, mapVars, updVars, cmdVars>>

\* file.lock_exclusive(): blocks until the lock is free
Lock(p) ==
    /\ pc[p] = "opened"
    /\ CanLock(p)
    /\ holders' = holders \cup {p}
    /\ pc' = [pc EXCEPT ![p] = "locked"]
    /\ pre' = [pre EXCEPT ![p] = stateFile]
    /\ UNCHANGED <<stateFile, tmpFile, state, result, ret, post, committed>>
    /\ UNCHANGED <<seen, revVars, schedVars, roundVars, retryVars, mapVars, updVars, cmdVars>>

\* file.lock_exclusive() returning an error
LockFail(p) ==
    /\ pc[p] = "opened"
    /\ Bail(p, "lock")
    /\ UNCHANGED <<stateFile, tmpFile, state, result, pre, committed>>
    /\ UNCHANGED <<seen, revVars, schedVars, roundVars, retryVars, mapVars, updVars, cmdVars>>

\* let mut state = State::load(state_path)?
LoadState(p) ==
    /\ pc[p] = "locked"
    /\ IF LoadOk(stateFile)
       THEN /\ state' = [state EXCEPT ![p] = Load(stateFile)]
            /\ pc' = [pc EXCEPT ![p] = "loaded"]
            /\ UNCHANGED <<holders, ret, post>>
       ELSE /\ Bail(p, "load")
            /\ UNCHANGED state
    /\ UNCHANGED <<stateFile, tmpFile, result, pre, committed>>
    /\ UNCHANGED <<seen, revVars, schedVars, roundVars, retryVars, mapVars, updVars, cmdVars>>

\* let result = f(&mut state): the closure may mark the document and may fail
Closure(p, mutate, ok) ==
    /\ pc[p] = "loaded"
    /\ state' = [state EXCEPT ![p] =
                    IF mutate THEN [marks |-> @.marks \cup {p}] ELSE @]
    /\ result' = [result EXCEPT ![p] = IF ok THEN "ok" ELSE "closure"]
    /\ pc' = [pc EXCEPT ![p] = "ran"]
    /\ UNCHANGED <<holders, stateFile, tmpFile, ret, pre, post, committed>>
    /\ UNCHANGED <<seen, revVars, schedVars, roundVars, retryVars, mapVars, updVars, cmdVars>>

\* State::save, first half: create_dir_all and fs::write(&temp_path, content)
\* start by truncating the temporary file; skipped when the closure failed.
SaveBeginInPlace(p, ok) ==
    /\ pc[p] = "ran"
    /\ IF ShouldSave(p)
       THEN IF ok
            THEN /\ stateFile' = Empty
                 /\ pc' = [pc EXCEPT ![p] = "writing"]
                 /\ UNCHANGED <<holders, ret, post>>
            ELSE /\ Bail(p, "save")
                 /\ UNCHANGED stateFile
       ELSE /\ pc' = [pc EXCEPT ![p] = "unlocking"]
            /\ UNCHANGED <<holders, ret, post, stateFile>>
    /\ UNCHANGED <<tmpFile, state, result, pre, committed>>
    /\ UNCHANGED <<seen, revVars, schedVars, roundVars, retryVars, mapVars, updVars, cmdVars>>

SaveBegin(p, ok) ==
    /\ pc[p] = "ran"
    /\ IF ShouldSave(p)
       THEN IF ok
            THEN /\ tmpFile' = Empty
                 /\ pc' = [pc EXCEPT ![p] = "writing"]
                 /\ UNCHANGED <<holders, ret, post>>
            ELSE /\ Bail(p, "save")
                 /\ UNCHANGED tmpFile
       ELSE /\ pc' = [pc EXCEPT ![p] = "unlocking"]
            /\ UNCHANGED <<holders, ret, post, tmpFile>>
    /\ UNCHANGED <<stateFile, state, result, pre, committed>>
    /\ UNCHANGED <<seen, revVars, schedVars, roundVars, retryVars, mapVars, updVars, cmdVars>>

\* fs::write(&temp_path, content) completing, or failing half way
SaveWriteDirect(p, ok) ==
    /\ pc[p] = "writing"
    /\ IF ok
       THEN /\ stateFile' = Serialize(state[p])
            /\ tmpFile' = Serialize(state[p])
            /\ pc' = [pc EXCEPT ![p] = "written"]
            /\ UNCHANGED <<holders, ret, post>>
       ELSE /\ stateFile' = Partial
            /\ tmpFile' = Partial
            /\ pc' = [pc EXCEPT ![p] = "done"]
            /\ ret' = [ret EXCEPT ![p] = Err("save")]
            /\ post' = [post EXCEPT ![p] = Partial]
            /\ holders' = DropFile(p)
    /\ UNCHANGED <<state, result, pre, committed>>
    /\ UNCHANGED <<seen, revVars, schedVars, roundVars, retryVars, mapVars, updVars, cmdVars>>

SaveWrite(p, ok) ==
    /\ pc[p] = "writing"
    /\ IF ok
       THEN /\ tmpFile' = Serialize(state[p])
            /\ pc' = [pc EXCEPT ![p] = "written"]
            /\ UNCHANGED <<holders, ret, post>>
       ELSE /\ tmpFile' = Partial
            /\ Bail(p, "save")
    /\ UNCHANGED <<stateFile, state, result, pre, committed>>
    /\ UNCHANGED <<seen, revVars, schedVars, roundVars, retryVars, mapVars, updVars, cmdVars>>

\* fs::rename(&temp_path, path)
SaveRename(p, ok) ==
    /\ pc[p] = "written"
    /\ IF ok
       THEN /\ stateFile' = tmpFile
            /\ tmpFile' = Absent
            /\ committed' = committed \cup (state[p].marks \cap {p})
            /\ pc' = [pc EXCEPT ![p] = "unlocking"]
            /\ UNCHANGED <<holders, ret, post>>
       ELSE /\ Bail(p, "save")
            /\ UNCHANGED <<stateFile, tmpFile, committed>>
    /\ UNCHANGED <<state, result, pre>>
    /\ UNCHANGED <<seen, revVars, schedVars, roundVars, retryVars, mapVars, updVars, cmdVars>>

\* file.unlock()?; result  -- the function returns and `file` is dropped
UnlockHeld(p, ok) ==
    /\ pc[p] = "unlocking"
    /\ pc' = [pc EXCEPT ![p] = "done"]
    /\ ret' = [ret EXCEPT ![p] = IF ~ok THEN Err("unlock")
                                 ELSE IF result[p] = "ok" THEN Ok("unit")
                                 ELSE Err(result[p])]
    /\ post' = [post EXCEPT ![p] = stateFile]
    /\ UNCHANGED <<holders, stateFile, tmpFile, state, result, pre, committed>>
    /\ UNCHANGED <<seen, revVars, schedVars, roundVars, retryVars, mapVars, updVars, cmdVars>>

Unlock(p, ok) ==
    /\ pc[p] = "unlocking"
    /\ IF ok
       THEN /\ holders' = holders \ {p}
            /\ pc' = [pc EXCEPT ![p] = "done"]
            /\ ret' = [ret EXCEPT ![p] = IF result[p] = "ok" THEN Ok("unit")
                                                          ELSE Err(result[p])]
            /\ post' = [post EXCEPT ![p] = stateFile]
       ELSE Bail(p, "unlock")
    /\ UNCHANGED <<stateFile, tmpFile, state, result, pre, committed>>
    /\ UNCHANGED <<seen, revVars, schedVars, roundVars, retryVars, mapVars, updVars, cmdVars>>

\* State::load(&state_path) by a caller that takes no lock (task current,
\* agent context): one read of whatever is at state_path at that instant
ReadUnlocked ==
    /\ seen' = IF holders = {}
               THEN Read(stateFile, stateFile, stateFile)
               ELSE LET p == CHOOSE q \in holders : TRUE
                    IN Read(stateFile, pre[p],
                            IF pc[p] \in {"ran", "writing", "written", "unlocking"}
                               /\ result[p] = "ok"
                            THEN Serialize(state[p]) ELSE pre[p])
    /\ UNCHANGED <<pc, holders, stateFile, tmpFile, state, result, ret, pre, post,
                   committed>>
    /\ UNCHANGED <<revVars, schedVars, roundVars, retryVars, mapVars, updVars, cmdVars>>

IdleRetry ==
    /\ max_retries = 0
    /\ attempt = 0
    /\ invocations = <<>>
    /\ slept = 0
    /\ wret = NoRet
    /\ wpc = "idle"

IdleMap ==
    /\ calendar_mappings = <<>>
    /\ latest = <<>>
    /\ removed = <<>>
    /\ nops = 0

IdleCmd ==
    /\ disk = <<>>
    /\ timer = <<>>
    /\ calls = <<>>
    /\ focus_blocks = <<>>
    /\ warnings = <<>>
    /\ start_cmd = <<>>
    /\ checkin_cmd = <<>>

IdleUpd ==
    /\ update_args = <<>>
    /\ item_rev = 0
    /\ operations = <<>>
    /\ bodies = <<>>
    /\ upc = "idle"
    /\ uret = NoRet

IdleRev ==
    /\ remote = <<>>
    /\ entry = "none"
    /\ gpc = "idle"
    /\ gid = 0
    /\ expected_rev = 0
    /\ current = 0
    /\ requests = <<>>
    /\ patches = <<>>
    /\ gret = NoRet
    /\ edits = 0

IdleSched ==
    /\ events = <<>>
    /\ win = <<0, 0>>
    /\ gaps = <<>>
    /\ now = 0
    /\ duration_mins = 0
    /\ work_hours = <<>>
    /\ spc = "idle"
    /\ search_start = 0
    /\ search_day = 0
    /\ iter = 0
    /\ windows = <<>>
    /\ slot = NoSlot

IdleLock ==
    /\ pc = <<>>
    /\ holders = {}
    /\ stateFile = Absent
    /\ tmpFile = Absent
    /\ state = <<>>
    /\ result = <<>>
    /\ ret = <<>>
    /\ pre = <<>>
    /\ post = <<>>
    /\ committed = {}
    /\ seen = NoRead

IdleRound ==
    /\ times = <<>>
    /\ rounded = <<>>
    /\ rerounded = <<>>
    /\ rpc = "idle"

\* The state file is missing, blank, damaged, or holds the default document
\* (the test saves State::default() first).
InitLock ==
    /\ pc = [p \in Procs |-> "start"]
    /\ holders = {}
    /\ stateFile \in {Absent, Empty, Corrupt, Serialize(DefaultState)}
    /\ tmpFile = Absent
    /\ state = [p \in Procs |-> DefaultState]
    /\ result = [p \in Procs |-> "none"]
    /\ ret = [p \in Procs |-> NoRet]
    /\ pre = [p \in Procs |-> Absent]
    /\ post = [p \in Procs |-> Absent]
    /\ committed = {}
    /\ seen = NoRead
    /\ IdleRev
    /\ IdleSched
    /\ IdleRound
    /\ IdleRetry
    /\ IdleMap
    /\ IdleUpd
    /\ IdleCmd

NextLock ==
    \/ ReadUnlocked
    \/ \E p \in Procs :
        \/ \E ok \in BOOLEAN : OpenLock(p, ok)
        \/ Lock(p)
        \/ LockFail(p)
        \/ LoadState(p)
        \/ \E mutate \in BOOLEAN, ok \in BOOLEAN : Closure(p, mutate, ok)
        \/ \E ok \in BOOLEAN : SaveBegin(p, ok)
        \/ \E ok \in BOOLEAN : SaveWrite(p, ok)
        \/ \E ok \in BOOLEAN : SaveRename(p, ok)
        \/ \E ok \in BOOLEAN : Unlock(p, ok)

SpecLock == InitLock /\ [][NextLock]_vars

\* The steps of p that its own code takes once it runs: everything but the
\* wait inside lock_exclusive
Running(p) ==
    \/ \E ok \in BOOLEAN : OpenLock(p, ok)
    \/ LoadState(p)
    \/ \E mutate \in BOOLEAN, ok \in BOOLEAN : Closure(p, mutate, ok)
    \/ \E ok \in BOOLEAN : SaveBegin(p, ok)
    \/ \E ok \in BOOLEAN : SaveWrite(p, ok)
    \/ \E ok \in BOOLEAN : SaveRename(p, ok)
    \/ \E ok \in BOOLEAN : Unlock(p, ok)

\* The callers of with_state_lock on their own, without the readers
Transact == \E p \in Procs : Running(p) \/ Lock(p) \/ LockFail(p)

\* Every process keeps running (its closure terminates), and a process
\* waiting in lock_exclusive is given the lock once it stays free; a failure
\* of lock_exclusive may or may not happen.
SpecLockLive ==
    /\ InitLock
    /\ [][Transact]_vars
    /\ \A p \in Procs : WF_vars(Running(p)) /\ WF_vars(Lock(p))

(***************************************************************************)
(*                 Properties of with_state_lock (SpecLock)                *)
(***************************************************************************)

\* p is between its lock acquisition and its lock release
InTx(p) == pc[p] \in {"locked", "loaded", "ran", "writing", "written", "unlocking"}

\* C1: mutual exclusion -- at most one process is between acquiring and
\* releasing the lock, so load / closure / persist of two transactions never
\* interleave.
C1_MutualExclusion ==
    \A p \in Procs, q \in Procs : (p # q /\ InTx(p)) => ~InTx(q)

\* One process is about to rename while another has opened the lock file and
\* is blocked in lock_exclusive.
C1_Witness ==
    \E p \in Procs, q \in Procs : pc[p] = "written" /\ pc[q] = "opened"

\* C2: no lost update -- whoever has just loaded holds exactly the document
\* the earlier transactions persisted, and once a transaction has returned Ok
\* the state file is the complete document with the marks of every
\* transaction that persisted one.
C2_NoLostUpdate ==
    /\ \A p \in Procs :
          pc[p] = "loaded" => state[p] = [marks |-> committed]
    /\ (\E p \in Procs : ret[p].kind = "ok") =>
          stateFile = Serialize([marks |-> committed])

\* Every process has returned Ok and every one of them marked the document.
C2_Witness ==
    /\ \A p \in Procs : ret[p].kind = "ok" /\ p \in committed
    /\ stateFile = Serialize([marks |-> Procs])

\* C3 as stated: a failing closure makes with_state_lock return that very
\* error, and the state file is what it was before the transaction.
C3_Original ==
    \A p \in Procs :
        (pc[p] = "done" /\ result[p] = "closure") =>
            (ret[p] = Err("closure") /\ post[p] = pre[p])

\* C3 amended: a failing closure makes with_state_lock return an error -- the
\* closure's, unless file.unlock() fails, whose error is then returned in its
\* place -- and the state file is what it was before the transaction.
C3_ClosureErrorKeepsFile ==
    \A p \in Procs :
        (pc[p] = "done" /\ result[p] = "closure") =>
            /\ ret[p] \in {Err("closure"), Err("unlock")}
            /\ post[p] = pre[p]

\* A closure marked the in-memory document, failed, and its error came back
\* while the file held an earlier transaction's document.
C3_Witness ==
    \E p \in Procs :
        /\ ret[p] = Err("closure")
        /\ p \in state[p].marks
        /\ pre[p].kind = "json"
        /\ pre[p].doc.marks # {}

\* C4: whenever with_state_lock has returned, on any path, the caller no
\* longer holds the exclusive lock.
C4_LockReleasedOnReturn ==
    \A p \in Procs : pc[p] = "done" => p \notin holders

\* One caller returned a persist error and another one then went through a
\* whole transaction.
C4_Witness ==
    \E p \in Procs, q \in Procs :
        /\ ret[p] = Err("save")
        /\ pre[q] = post[p]
        /\ ret[q].kind = "ok"
        /\ q \in committed

\* C18: when the closure succeeded and State::save failed (creating the
\* directory, writing the temporary file, or the rename), with_state_lock
\* returns an error and the state file is, complete, what it was before the
\* transaction; it returns Ok only with the closure's document in place.
C18_SaveFailureKeepsFile ==
    \A p \in Procs :
        (pc[p] = "done" /\ result[p] = "ok") =>
            /\ ret[p] = Err("save") => (post[p] = pre[p] /\ post[p].kind # "partial")
            /\ ret[p].kind = "ok" => post[p] = Serialize(state[p])

\* The closure marked the document, writing the temporary file broke off half
\* way, and the error came back with an earlier transaction's document still
\* in place.
C18_Witness ==
    \E p \in Procs :
        /\ ret[p] = Err("save")
        /\ result[p] = "ok"
        /\ p \in state[p].marks
        /\ tmpFile = Partial
        /\ post[p].kind = "json"
        /\ post[p].doc.marks = Procs \ {p}
        /\ stateFile = post[p]

\* C19: atomic replace -- what a reader outside the lock finds at the state
\* path is the complete file as it was before the transaction in progress or
\* the complete document that transaction persists, never a partly written
\* file and never a blank one unless the file was blank before.
C19_ReaderSeesWholeDocument ==
    seen.read =>
        /\ seen.content \in {seen.pre, seen.post}
        /\ seen.content.kind # "partial"
        /\ seen.content.kind = "empty" => seen.pre.kind = "empty"

\* A read between the rename and the unlock found the new document; the
\* temporary file had been written and renamed away.
C19_Witness ==
    \E p \in Procs :
        /\ pc[p] = "unlocking"
        /\ p \in state[p].marks
        /\ seen.read
        /\ seen.content = Serialize(state[p])
        /\ seen.pre = pre[p]
        /\ seen.pre.kind = "json"
        /\ seen.post = seen.content

\* C28: lock liveness -- every caller of with_state_lock eventually returns,
\* and whoever waits for the lock leaves the wait, whether the holder's
\* transaction succeeded or failed.
C28_LockLiveness ==
    \A p \in Procs :
        /\ <>(pc[p] = "done")
        /\ (pc[p] = "opened") ~> (pc[p] \in {"locked", "done"})

\* One caller's closure failed, and another caller went through its whole
\* transaction and returned Ok.
C28_Witness ==
    \E p \in Procs, q \in Procs :
        /\ p # q
        /\ pc[q] = "done" /\ ret[q] = Err("closure")
        /\ pc[p] = "done" /\ ret[p].kind = "ok"
        /\ p \in committed

(***************************************************************************)
(*          devops/client.rs : update_work_item(_with_rev)                 *)
(***************************************************************************)

\* Work item ids the caller may name, and None for Option<u32>
Ids == {7, 9}

NoRev == 0

\* Revisions a caller may pass: any the record can have had, and one it has not
Revs == 1..(MaxEdits + 2)

\* A freshly created work item
NewItem == [rev |-> 1, fields |-> "orig"]

\* What the call returns: Ok(work_item) or one of its errors
NoResult == [kind |-> "none", id |-> 0, expected |-> NoRev, actual |-> NoRev]
Updated(id, rev) == [kind |-> "ok", id |-> id, expected |-> NoRev, actual |-> rev]
Failure(kind, id) == [kind |-> kind, id |-> id, expected |-> NoRev, actual |-> NoRev]

\* "Conflict detected: Work item {id} ... (expected rev {}, current rev {})"
Conflict(id, exp, cur) ==
    [kind |-> "conflict", id |-> id, expected |-> exp, actual |-> cur]

\* `if let Some(expected) = expected_rev`
HasExpectedAlways(exp) == TRUE

HasExpected(exp) == exp # NoRev

\* `current.rev != expected`, negated
RevMatchesNewer(cur, exp) == cur >= exp

RevMatches(cur, exp) == cur = exp

\* The PATCH body is the caller's operations and nothing else: it carries no
\* revision test, so a server that takes the request applies it.
ServerAppliesIfMatch(outcome, rev, exp) ==
    outcome \in {"ok", "parse_err"} /\ (exp = NoRev \/ rev = exp)

ServerApplies(outcome, rev, exp) == outcome \in {"ok", "parse_err"}

\* How a PATCH may end: 2xx with a body that parses, the send failing, a
\* non-success status, 2xx with a body that does not parse
Outcomes == {"ok", "send_err", "status_err", "parse_err"}

\* Somebody else edits a work item on the server.
ExternalEdit(id) ==
    /\ edits < MaxEdits
    /\ edits' = edits + 1
    /\ remote' = [remote EXCEPT ![id] = [rev |-> @.rev + 1, fields |-> "ext"]]
    /\ UNCHANGED <<entry, gpc, gid, expected_rev, current, requests, patches, gret>>
    /\ UNCHANGED <<lockVars, schedVars, roundVars, retryVars, mapVars, updVars, cmdVars>>

\* self.get_work_item(id)? and the comparison of current.rev with expected
FetchAndCheck(ok) ==
    /\ gpc = "start"
    /\ HasExpected(expected_rev)
    /\ requests' = Append(requests, [method |-> "GET", id |-> gid])
    /\ IF ok
       THEN /\ current' = remote[gid].rev
            /\ IF RevMatches(remote[gid].rev, expected_rev)
               THEN /\ gpc' = "checked"
                    /\ UNCHANGED gret
               ELSE /\ gpc' = "done"
                    /\ gret' = Conflict(gid, expected_rev, remote[gid].rev)
       ELSE /\ gpc' = "done"
            /\ gret' = Failure("fetch_err", gid)
            /\ UNCHANGED current
    /\ UNCHANGED <<remote, entry, gid, expected_rev, patches, edits>>
    /\ UNCHANGED <<lockVars, schedVars, roundVars, retryVars, mapVars, updVars, cmdVars>>

\* self.client.patch(&url)...json(&operations).send() and the handling of
\* the response
Patch(outcome) ==
    /\ \/ gpc = "checked"
       \/ gpc = "start" /\ ~HasExpected(expected_rev)
    /\ requests' = Append(requests, [method |-> "PATCH", id |-> gid])
    /\ LET applied == ServerApplies(outcome, remote[gid].rev, expected_rev)
       IN /\ patches' = Append(patches, [id |-> gid, outcome |-> outcome,
                                         revBefore |-> remote[gid].rev,
                                         applied |-> applied])
          /\ remote' = IF applied
                       THEN [remote EXCEPT ![gid] =
                                [rev |-> @.rev + 1, fields |-> "ops"]]
                       ELSE remote
          /\ gret' = IF outcome = "ok" /\ applied
                     THEN Updated(gid, remote[gid].rev + 1)
                     ELSE IF outcome = "parse_err"
                          THEN Failure("parse_err", gid)
                          ELSE Failure("update_err", gid)
    /\ gpc' = "done"
    /\ bodies' = Append(bodies, operations)
    /\ UNCHANGED <<entry, gid, expected_rev, current, edits>>
    /\ UNCHANGED <<update_args, item_rev, operations, upc, uret>>
    /\ UNCHANGED <<lockVars, schedVars, roundVars, retryVars, mapVars, cmdVars>>

\* update_work_item(id, operations) is update_work_item_with_rev(.., None)
InitRev ==
    /\ remote = [i \in Ids |-> NewItem]
    /\ entry \in {"update_work_item", "update_work_item_with_rev"}
    /\ gpc = "start"
    /\ gid \in Ids
    /\ expected_rev \in IF entry = "update_work_item"
                        THEN {NoRev} ELSE {NoRev} \cup Revs
    /\ current = NoRev
    /\ requests = <<>>
    /\ patches = <<>>
    /\ gret = NoResult
    /\ edits = 0
    /\ IdleLock
    /\ IdleSched
    /\ IdleRound
    /\ IdleRetry
    /\ IdleMap
    /\ IdleUpd
    /\ IdleCmd

NextRev ==
    \/ \E id \in Ids : ExternalEdit(id)
    \/ \E ok \in BOOLEAN : FetchAndCheck(ok)
    \/ \E outcome \in Outcomes : Patch(outcome)

SpecRev == InitRev /\ [][NextRev]_vars

(***************************************************************************)
(*        Properties of update_work_item_with_rev (SpecRev)                *)
(***************************************************************************)

GET(id) == [method |-> "GET", id |-> id]
PATCH(id) == [method |-> "PATCH", id |-> id]

\* C5: when the re-fetched revision differs from the expected one the call
\* returns the conflict error naming id, expected and actual revision, and
\* the GET is the only request it issued: no PATCH, nothing applied.
C5_ConflictNoPatch ==
    (gpc = "done" /\ expected_rev # NoRev /\ current # NoRev
        /\ current # expected_rev) =>
        /\ gret = Conflict(gid, expected_rev, current)
        /\ requests = <<GET(gid)>>
        /\ patches = <<>>

\* The record was edited twice before the re-fetch, which found a revision
\* above the expected one.
C5_Witness ==
    /\ gret.kind = "conflict"
    /\ gret.actual > gret.expected
    /\ remote[gid].fields = "ext"
    /\ expected_rev > 1

\* C6: the guard is no compare-and-swap -- a PATCH sent after the check has
\* passed is applied whenever the server takes it, whatever revision the
\* record has by then, and the call then returns Ok: an edit made between
\* re-fetch and PATCH is neither detected nor prevented.
C6_CheckThenPatchRace ==
    \A i \in DOMAIN patches :
        (expected_rev # NoRev /\ patches[i].outcome \in {"ok", "parse_err"}) =>
            /\ current = expected_rev
            /\ patches[i].applied
            /\ remote[patches[i].id].rev > patches[i].revBefore
            /\ patches[i].outcome = "ok" => gret.kind = "ok"

\* The check passed, the record was edited, and the PATCH was applied to a
\* revision that is not the expected one.
C6_Witness ==
    /\ expected_rev # NoRev
    /\ current = expected_rev
    /\ gret.kind = "ok"
    /\ \E i \in DOMAIN patches :
          patches[i].applied /\ patches[i].revBefore # expected_rev

\* C7: without an expected revision the PATCH is the first and only request
\* (no fetch, no comparison), and the server applies it to whatever revision
\* the record has.
C7_NoRevPatchesDirectly ==
    expected_rev = NoRev =>
        /\ current = NoRev
        /\ requests = IF gpc = "done" THEN <<PATCH(gid)>> ELSE <<>>
        /\ gret.kind # "conflict"
        /\ \A i \in DOMAIN patches :
              patches[i].outcome \in {"ok", "parse_err"} =>
                  (patches[i].applied /\ remote[gid].rev > patches[i].revBefore)

\* update_work_item patched a record that had been edited since creation.
C7_Witness ==
    /\ entry = "update_work_item"
    /\ gret.kind = "ok"
    /\ patches[1].revBefore > 1
    /\ remote[gid].rev = patches[1].revBefore + 1

(***************************************************************************)
(*            graph/scheduler.rs : find_gaps, find_next_slot               *)
(* A DateTime<Utc> is a number of seconds since 00:00:00 of day 0.         *)
(***************************************************************************)

\* The 15-minute granularity and the `for _ in 0..7` horizon
Interval == 15
Horizon == 7

T(d, h, m, s) == d * 86400 + h * 3600 + m * 60 + s

\* time.minute(), time.date_naive(), time.with_minute(0).with_second(0)
Minute(t) == (t \div 60) % 60
DateNaive(t) == t \div 86400
HourStart(t) == t - (t % 3600)

MaxT(a, b) == IF a >= b THEN a ELSE b

\* round_to_next_interval: the match on minute, then the three branches
NextInterval(minute) ==
    CASE minute <= 14 -> 15
      [] minute = 15 -> 15
      [] minute >= 16 /\ minute <= 30 -> 30
      [] minute >= 31 /\ minute <= 45 -> 45
      [] OTHER -> 0

round_within_hour(time) == HourStart(time) + NextInterval(Minute(time)) * 60

round_to_next_interval(time) ==
    LET minute == Minute(time)
        next_interval == NextInterval(minute)
    IN IF next_interval = 0
       THEN HourStart(time) + 3600
       ELSE HourStart(time) + next_interval * 60

\* A DateTimeTimeZone.date_time string: with an offset (RFC 3339), without
\* one, or not a timestamp at all.
DateTimeStr(form, local, offset) ==
    [form |-> form, local |-> local, offset |-> offset]
Naive(t) == DateTimeStr("naive", t, 0)
Rfc3339(t, offset) == DateTimeStr("rfc3339", t + offset, offset)
Garbage == DateTimeStr("bad", 0, 0)

CalendarEvent(start, end) == [start |-> start, end |-> end]

\* parse_event_time: RFC 3339 is converted to UTC, a string without offset is
\* taken as UTC, anything else is an error.
ParseOk(dt) == dt.form \in {"rfc3339", "naive"}

parse_event_time(dt) ==
    IF dt.form = "rfc3339" THEN dt.local - dt.offset ELSE dt.local

\* The filter_map closure of find_gaps: Some((event_start, event_end)) or None
Keeps(e, start_time, end_time) ==
    /\ ParseOk(e.start)
    /\ ParseOk(e.end)
    /\ ~(parse_event_time(e.end) <= start_time)
    /\ ~(parse_event_time(e.start) >= end_time)

RECURSIVE FilterMap(_, _, _)
FilterMap(evs, start_time, end_time) ==
    IF evs = <<>> THEN <<>>
    ELSE LET e == Head(evs)
             rest == FilterMap(Tail(evs), start_time, end_time)
         IN IF Keeps(e, start_time, end_time)
            THEN <<<<parse_event_time(e.start), parse_event_time(e.end)>>>> \o rest
            ELSE rest

\* sorted_events.sort_by_key(|(start, _)| *start): a stable sort
RECURSIVE InsertByStart(_, _)
InsertByStart(sorted, x) ==
    IF sorted = <<>> THEN <<x>>
    ELSE IF x[1] < Head(sorted)[1]
         THEN <<x>> \o sorted
         ELSE <<Head(sorted)>> \o InsertByStart(Tail(sorted), x)

RECURSIVE SortByStart(_)
SortByStart(seq) ==
    IF seq = <<>> THEN <<>>
    ELSE InsertByStart(SortByStart(SubSeq(seq, 1, Len(seq) - 1)), seq[Len(seq)])

\* current = current.max(event_end)
AdvanceToEnd(cur, event_end) == event_end

AdvanceNot(cur, event_end) == cur

Advance(cur, event_end) == MaxT(cur, event_end)

\* The sweep over sorted_events and the gap after the last event
RECURSIVE Sweep(_, _, _, _)
Sweep(sorted, cur, end_time, acc) ==
    IF sorted = <<>>
    THEN IF cur < end_time THEN Append(acc, <<cur, end_time>>) ELSE acc
    ELSE LET event_start == Head(sorted)[1]
             event_end == Head(sorted)[2]
         IN Sweep(Tail(sorted), Advance(cur, event_end), end_time,
                  IF cur < event_start
                  THEN Append(acc, <<cur, event_start>>) ELSE acc)

find_gaps(evs, start_time, end_time) ==
    IF evs = <<>>
    THEN <<<<start_time, end_time>>>>
    ELSE Sweep(SortByStart(FilterMap(evs, start_time, end_time)),
               start_time, end_time, <<>>)

\* ---- inputs ----

\* Calendar events as Graph returns them: start <= end, in any order
EventChoices ==
    { CalendarEvent(Naive(T(0, 9, 0, 0)), Naive(T(0, 10, 0, 0))),
      CalendarEvent(Naive(T(0, 11, 0, 0)), Naive(T(0, 12, 0, 0))),
      CalendarEvent(Naive(T(0, 9, 30, 0)), Naive(T(0, 11, 30, 0))),
      CalendarEvent(Naive(T(0, 8, 30, 0)), Naive(T(0, 17, 0, 0))),
      CalendarEvent(Naive(T(0, 9, 0, 0)), Naive(T(0, 10, 0, 30))),
      CalendarEvent(Naive(T(0, 12, 0, 0)), Naive(T(0, 12, 0, 0))),
      CalendarEvent(Rfc3339(T(0, 8, 30, 0), 3600), Rfc3339(T(0, 10, 7, 0), 3600)),
      CalendarEvent(Naive(T(1, 8, 30, 0)), Naive(T(1, 17, 0, 0))),
      CalendarEvent(Naive(T(0, 0, 0, 0)), Naive(T(7, 0, 0, 0))),
      CalendarEvent(Naive(T(0, 14, 0, 0)), Garbage) }

EventLists == UNION {[1..n -> EventChoices] : n \in 0..MaxEvents}

\* (start_time, end_time) pairs for find_gaps, also empty and inverted ones
WindowChoices ==
    { <<T(0, 8, 30, 0), T(0, 17, 0, 0)>>,
      <<T(0, 9, 30, 0), T(0, 11, 30, 0)>>,
      <<T(0, 9, 15, 0), T(0, 9, 45, 0)>>,
      <<T(1, 8, 30, 0), T(1, 17, 0, 0)>>,
      <<T(0, 10, 0, 0), T(0, 10, 0, 0)>>,
      <<T(0, 17, 30, 0), T(0, 17, 0, 0)>> }

NoGaps == <<<<-1, -1>>>>

InitGaps ==
    /\ events \in EventLists
    /\ win \in WindowChoices
    /\ gaps = NoGaps
    /\ now = 0
    /\ duration_mins = 0
    /\ work_hours = <<>>
    /\ spc = "gaps"
    /\ search_start = 0
    /\ search_day = 0
    /\ iter = 0
    /\ windows = <<>>
    /\ slot = NoSlot
    /\ IdleLock
    /\ IdleRev
    /\ IdleRound
    /\ IdleRetry
    /\ IdleMap
    /\ IdleUpd
    /\ IdleCmd

\* One call find_gaps(events, start_time, end_time)
FindGaps ==
    /\ spc = "gaps"
    /\ gaps' = find_gaps(events, win[1], win[2])
    /\ spc' = "done"
    /\ UNCHANGED <<events, win, now, duration_mins, work_hours, search_start,
                   search_day, iter, windows, slot>>
    /\ UNCHANGED <<lockVars, revVars, roundVars, retryVars, mapVars, updVars, cmdVars>>

NextGaps == FindGaps

SpecGaps == InitGaps /\ [][NextGaps]_vars

\* ---- find_next_slot ----

\* A work-hours string "HH:MM" as its two numbers
HM(hh, mm) == [hh |-> hh, mm |-> mm]

\* NaiveTime::parse_from_str(s, "%H:%M"): Ok for hour 0..23 and minute 0..59
TimeOk(hm) == hm.hh >= 0 /\ hm.hh <= 23 /\ hm.mm >= 0 /\ hm.mm <= 59

\* Seconds after midnight of a parsed NaiveTime
NaiveTime(hm) == hm.hh * 3600 + hm.mm * 60

\* search_day.and_time(t).and_local_timezone(Utc)
AndTime(day, hm) == day * 86400 + NaiveTime(hm)

\* (gap_end - gap_start).num_minutes(): whole minutes, rounded towards zero
NumMinutes(d) == IF d >= 0 THEN d \div 60 ELSE -((-d) \div 60)

\* `gap_duration_mins >= duration_mins` with gap_duration_mins the i64 minute
\* count cast `as u32`: a negative count n wraps to 2^32 + n, which is above
\* every duration below 2^31.
DurationAtLeast(minutes, dur) == IF minutes < 0 THEN TRUE ELSE minutes >= dur

\* `if slot_end <= gap_end && slot_end <= day_end`
FitsDayOnly(slot_end, gap_end, day_end) == slot_end <= day_end

Fits(slot_end, gap_end, day_end) == slot_end <= gap_end /\ slot_end <= day_end

\* The body of `for (gap_start, gap_end) in gaps`: the first accepted slot,
\* or NoSlot when no gap of the day takes one
RECURSIVE FirstFit(_, _, _)
FirstFit(gs, dur, day_end) ==
    IF gs = <<>> THEN NoSlot
    ELSE LET gap_start == Head(gs)[1]
             gap_end == Head(gs)[2]
             gap_duration_mins == NumMinutes(gap_end - gap_start)
             slot_start == IF Minute(gap_start) % Interval = 0
                           THEN gap_start
                           ELSE round_to_next_interval(gap_start)
             slot_end == slot_start + dur * 60
         IN IF DurationAtLeast(gap_duration_mins, dur) /\ Fits(slot_end, gap_end, day_end)
            THEN OkSlot(slot_start, slot_end)
            ELSE FirstFit(Tail(gs), dur, day_end)

\* The window of one iteration: (actual_start, day_end)
DayStart(day) == AndTime(day, work_hours.start)
DayEnd(day) == AndTime(day, work_hours.end)
ActualStart(day) ==
    IF day = DateNaive(now) THEN MaxT(search_start, DayStart(day)) ELSE DayStart(day)

NowChoices ==
    { T(0, 8, 0, 0), T(0, 9, 0, 0), T(0, 9, 7, 0), T(0, 9, 15, 30),
      T(0, 9, 30, 0), T(0, 16, 30, 0), T(0, 17, 30, 0), T(0, 23, 50, 0) }

DurationChoices == {0, 45, 50, 510, 600}

WorkHoursChoices ==
    { [start |-> HM(8, 30), end |-> HM(17, 0)],
      [start |-> HM(9, 10), end |-> HM(17, 0)],
      [start |-> HM(22, 0), end |-> HM(6, 0)],
      [start |-> HM(25, 0), end |-> HM(17, 0)],
      [start |-> HM(8, 30), end |-> HM(17, 60)] }

InitSlot ==
    /\ events \in EventLists
    /\ win = <<0, 0>>
    /\ gaps = <<>>
    /\ now \in NowChoices
    /\ duration_mins \in DurationChoices
    /\ work_hours \in WorkHoursChoices
    /\ spc = "start"
    /\ search_start = 0
    /\ search_day = 0
    /\ iter = 0
    /\ windows = <<>>
    /\ slot = NoSlot
    /\ IdleLock
    /\ IdleRev
    /\ IdleRound
    /\ IdleRetry
    /\ IdleMap
    /\ IdleUpd
    /\ IdleCmd

\* Parsing the work hours, rounding now, picking the first day
Begin ==
    /\ spc = "start"
    /\ IF ~TimeOk(work_hours.start)
       THEN /\ slot' = SlotErr("Invalid work hours start time format")
            /\ spc' = "done"
            /\ UNCHANGED <<search_start, search_day>>
       ELSE IF ~TimeOk(work_hours.end)
            THEN /\ slot' = SlotErr("Invalid work hours end time format")
                 /\ spc' = "done"
                 /\ UNCHANGED <<search_start, search_day>>
            ELSE /\ search_start' = round_to_next_interval(now)
                 /\ search_day' = DateNaive(round_to_next_interval(now))
                 /\ spc' = "search"
                 /\ UNCHANGED slot
    /\ UNCHANGED <<events, win, gaps, now, duration_mins, work_hours, iter, windows>>
    /\ UNCHANGED <<lockVars, revVars, roundVars, retryVars, mapVars, updVars, cmdVars>>

\* One iteration of `for _ in 0..7`
DayStep ==
    /\ spc = "search"
    /\ iter < Horizon
    /\ LET day_end == DayEnd(search_day)
           actual_start == ActualStart(search_day)
           day_gaps == find_gaps(events, actual_start, day_end)
           found == FirstFit(day_gaps, duration_mins, day_end)
       IN /\ windows' = Append(windows, <<actual_start, day_end>>)
          /\ gaps' = day_gaps
          /\ IF found.kind = "ok"
             THEN /\ slot' = found
                  /\ spc' = "done"
                  /\ UNCHANGED <<search_day, iter>>
             ELSE /\ search_day' = search_day + 1
                  /\ iter' = iter + 1
                  /\ UNCHANGED <<slot, spc>>
    /\ UNCHANGED <<events, win, now, duration_mins, work_hours, search_start>>
    /\ UNCHANGED <<lockVars, revVars, roundVars, retryVars, mapVars, updVars, cmdVars>>

\* anyhow::bail!("Could not find available slot in next 7 days")
ExhaustEarly ==
    /\ spc = "search"
    /\ iter < Horizon
    /\ slot' = SlotErr("Could not find available slot in next 7 days")
    /\ spc' = "done"
    /\ UNCHANGED <<events, win, gaps, now, duration_mins, work_hours, search_start,
                   search_day, iter, windows>>
    /\ UNCHANGED <<lockVars, revVars, roundVars, retryVars, mapVars, updVars, cmdVars>>

Exhaust ==
    /\ spc = "search"
    /\ iter = Horizon
    /\ slot' = SlotErr("Could not find available slot in next 7 days")
    /\ spc' = "done"
    /\ UNCHANGED <<events, win, gaps, now, duration_mins, work_hours, search_start,
                   search_day, iter, windows>>
    /\ UNCHANGED <<lockVars, revVars, roundVars, retryVars, mapVars, updVars, cmdVars>>

NextSlot == Begin \/ DayStep \/ Exhaust

SpecSlot == InitSlot /\ [][NextSlot]_vars

(***************************************************************************)
(*          Properties of find_gaps (SpecGaps) and find_next_slot          *)
(*          (SpecSlot)                                                     *)
(***************************************************************************)

\* The busy intervals among the events: those whose two timestamps parse
Busy ==
    { <<parse_event_time(events[i].start), parse_event_time(events[i].end)>> :
        i \in {j \in DOMAIN events : ParseOk(events[j].start) /\ ParseOk(events[j].end)} }

InBusy(t) == \E b \in Busy : b[1] <= t /\ t < b[2]
InGap(t) == \E i \in DOMAIN gaps : gaps[i][1] <= t /\ t < gaps[i][2]

\* Every instant at which the cover of the window can change
Breakpoints ==
    {win[1]} \cup {b[1] : b \in Busy} \cup {b[2] : b \in Busy}
             \cup {gaps[i][1] : i \in DOMAIN gaps}
             \cup {gaps[i][2] : i \in DOMAIN gaps}

Overlap(a1, a2, b1, b2) == a1 < b2 /\ b1 < a2

\* C8: gap/busy complementarity -- for a window with start < end, every gap
\* is a non-empty part of the window, every instant of the window lies in a
\* gap exactly when it lies in no busy interval, and no gap overlaps a busy
\* interval.
C8_GapBusyComplement ==
    (spc = "done" /\ gaps # NoGaps /\ win[1] < win[2]) =>
        /\ \A i \in DOMAIN gaps :
              win[1] <= gaps[i][1] /\ gaps[i][1] < gaps[i][2] /\ gaps[i][2] <= win[2]
        /\ \A t \in Breakpoints :
              (win[1] <= t /\ t < win[2]) => (InGap(t) <=> ~InBusy(t))
        /\ \A i \in DOMAIN gaps : \A b \in Busy :
              ~Overlap(gaps[i][1], gaps[i][2], b[1], b[2])

\* Two overlapping events given out of order leave a gap on either side.
C8_Witness ==
    /\ spc = "done"
    /\ win = <<T(0, 8, 30, 0), T(0, 17, 0, 0)>>
    /\ Len(events) = 2
    /\ events[1] = CalendarEvent(Naive(T(0, 11, 0, 0)), Naive(T(0, 12, 0, 0)))
    /\ events[2] = CalendarEvent(Naive(T(0, 9, 30, 0)), Naive(T(0, 11, 30, 0)))
    /\ gaps = << <<T(0, 8, 30, 0), T(0, 9, 30, 0)>>, <<T(0, 12, 0, 0), T(0, 17, 0, 0)>> >>

\* C9: the gaps come back strictly ordered by start and pairwise disjoint:
\* each gap ends no later than the next one starts, whatever the order of the
\* events.
C9_GapsOrdered ==
    (spc = "done" /\ gaps # NoGaps) =>
        \A i \in DOMAIN gaps : \A j \in DOMAIN gaps :
            i < j => (gaps[i][1] < gaps[j][1] /\ gaps[i][2] <= gaps[j][1])

\* Events given latest first leave three gaps in ascending order.
C9_Witness ==
    /\ spc = "done"
    /\ Len(events) = 2
    /\ parse_event_time(events[1].start) > parse_event_time(events[2].start)
    /\ Len(gaps) = 3

\* C10: slot containment -- a returned slot lies inside the work-hours window
\* of the calendar day it is on and overlaps no busy interval of the call.
C10_SlotContained ==
    slot.kind = "ok" =>
        /\ DayStart(DateNaive(slot.start)) <= slot.start
        /\ slot.start <= slot.end
        /\ slot.end <= DayEnd(DateNaive(slot.start))
        /\ \A b \in Busy : ~Overlap(slot.start, slot.end, b[1], b[2])

\* The slot was rounded up from a gap start off the boundary, on a day that
\* has a busy interval after it.
C10_Witness ==
    /\ slot.kind = "ok"
    /\ slot.end > slot.start
    /\ gaps # <<>>
    /\ \E i \in DOMAIN gaps : gaps[i][1] < slot.start /\ slot.end <= gaps[i][2]
    /\ \E b \in Busy : b[1] >= slot.end /\ DateNaive(b[1]) = DateNaive(slot.start)

\* The 15-minute boundaries: :00, :15, :30 and :45 with zero seconds
OnBoundary(t) == t % (Interval * 60) = 0

\* C11: every slot returned lasts exactly the requested duration and starts
\* on a 15-minute boundary, whatever now, the events and the work hours are.
C11_DurationAndAlignment ==
    slot.kind = "ok" =>
        /\ slot.end - slot.start = duration_mins * 60
        /\ OnBoundary(slot.start)

(***************************************************************************)
(*        graph/scheduler.rs : round_to_next_interval (SpecRound)          *)
(***************************************************************************)

\* Arguments of round_to_next_interval: every minute of an hour, with and
\* without seconds, in the morning, in the last hour of day 0 and in the
\* first hour of day 1
RoundTimes ==
    { T(0, h, m, s) : h \in {9, 23}, m \in 0..59, s \in {0, 30} }
        \cup { T(1, 0, m, s) : m \in 0..59, s \in {0, 30} }

InitRound ==
    /\ times \in { tt \in RoundTimes \X RoundTimes : tt[1] <= tt[2] }
    /\ rounded = <<>>
    /\ rerounded = <<>>
    /\ rpc = "start"
    /\ IdleLock
    /\ IdleRev
    /\ IdleSched
    /\ IdleRetry
    /\ IdleMap
    /\ IdleUpd
    /\ IdleCmd

\* round_to_next_interval(time) for each of the two arguments
Round ==
    /\ rpc = "start"
    /\ rounded' = [i \in DOMAIN times |-> round_to_next_interval(times[i])]
    /\ rpc' = "rounded"
    /\ UNCHANGED <<times, rerounded>>
    /\ UNCHANGED <<lockVars, revVars, schedVars, retryVars, mapVars, updVars, cmdVars>>

\* round_to_next_interval applied to what it returned
Reround ==
    /\ rpc = "rounded"
    /\ rerounded' = [i \in DOMAIN rounded |-> round_to_next_interval(rounded[i])]
    /\ rpc' = "done"
    /\ UNCHANGED <<times, rounded>>
    /\ UNCHANGED <<lockVars, revVars, schedVars, retryVars, mapVars, updVars, cmdVars>>

NextRound == Round \/ Reround

SpecRound == InitRound /\ [][NextRound]_vars

\* C12: rounding is idempotent -- a time on a 15-minute boundary comes back
\* unchanged, and rounding a rounded time changes nothing.
C12_RoundingIdempotent ==
    /\ rpc \in {"rounded", "done"} =>
          \A i \in DOMAIN times : OnBoundary(times[i]) => rounded[i] = times[i]
    /\ rpc = "done" =>
          \A i \in DOMAIN rounded : rerounded[i] = rounded[i]

\* C13: rounding is monotonic -- of two times the earlier never rounds to a
\* later instant than the later one, also across an hour or a day boundary.
C13_RoundingMonotonic ==
    /\ rpc \in {"rounded", "done"} =>
          (times[1] <= times[2] => rounded[1] <= rounded[2])
    /\ rpc = "done" =>
          (rounded[1] <= rounded[2] => rerounded[1] <= rerounded[2])

\* 23:50 on day 0 and 00:05 on day 1 round to 00:00 and 00:15 of day 1.
C13_Witness ==
    /\ rpc = "rounded"
    /\ times = <<T(0, 23, 50, 0), T(1, 0, 5, 0)>>
    /\ rounded = <<T(1, 0, 0, 0), T(1, 0, 15, 0)>>

\* C14: rounding goes up -- a time off the 15-minute boundaries rounds to the
\* least boundary after it, and minute 46..59 gives :00 of the following
\* hour, on the following day when the hour is 23.
C14_RoundsUp ==
    rpc \in {"rounded", "done"} =>
        \A i \in DOMAIN times :
            ~OnBoundary(times[i]) =>
                /\ OnBoundary(rounded[i])
                /\ times[i] < rounded[i]
                /\ rounded[i] < times[i] + Interval * 60
                /\ Minute(times[i]) >= 46 => rounded[i] = HourStart(times[i]) + 3600

(***************************************************************************)
(*        Further properties of find_next_slot (SpecSlot)                  *)
(***************************************************************************)

\* The error of a search that found nothing
NoSlotAvailable == SlotErr("Could not find available slot in next 7 days")

\* Both work-hours strings parsed, so the search itself ran
Searched == spc # "start" /\ TimeOk(work_hours.start) /\ TimeOk(work_hours.end)

\* The calendar day the i-th iteration looks at
HorizonDay(i) == DateNaive(search_start) + (i - 1)

\* What the iteration over window w accepts
Yield(w) == FirstFit(find_gaps(events, w[1], w[2]), duration_mins, w[2])

\* One busy interval covers the whole work-hours window of day d
FullyBooked(d) == \E b \in Busy : b[1] <= DayStart(d) /\ DayEnd(d) <= b[2]

\* C15: horizon exhaustion -- the search looks at no more than 7 consecutive
\* days starting at the date of the rounded now, every iteration either
\* returns or counts one more day, and while it has not returned either the
\* next iteration or the final error can be taken; it returns the no-slot error exactly when none
\* of the 7 days yields a slot, which is so when every one of the 7 windows
\* is fully booked; a returned slot lies on one of the 7 days.
C15_HorizonExhaustion ==
    /\ iter <= Horizon /\ Len(windows) <= Horizon
    /\ Len(windows) = iter + (IF slot.kind = "ok" THEN 1 ELSE 0)
    /\ spc = "search" => (iter < Horizon \/ iter = Horizon)
    /\ Searched =>
          /\ \A i \in DOMAIN windows : DateNaive(windows[i][2]) = HorizonDay(i)
          /\ (spc = "done") =>
                ((slot = NoSlotAvailable) <=>
                    /\ Len(windows) = Horizon
                    /\ \A i \in DOMAIN windows : Yield(windows[i]) = NoSlot)
          /\ (spc = "done" /\ \A i \in 1..Horizon : FullyBooked(HorizonDay(i))) =>
                slot = NoSlotAvailable
          /\ slot.kind = "ok" =>
                /\ DateNaive(slot.start) = HorizonDay(Len(windows))
                /\ slot = Yield(windows[Len(windows)])
                /\ \A i \in 1..(Len(windows) - 1) : Yield(windows[i]) = NoSlot

\* A week-long event books every one of the 7 days, and the search gives up
\* after the seventh.
C15_Witness ==
    /\ spc = "done"
    /\ slot = NoSlotAvailable
    /\ Len(windows) = Horizon
    /\ duration_mins = 45
    /\ work_hours = [start |-> HM(8, 30), end |-> HM(17, 0)]
    /\ \A i \in 1..Horizon : FullyBooked(HorizonDay(i))

\* The 15-minute boundaries t with from <= t < before
AlignedBetween(from, before) ==
    { k * (Interval * 60) :
        k \in ((from + Interval * 60 - 1) \div (Interval * 60))
                ..((before - 1) \div (Interval * 60)) }

\* [t, t + duration) lies inside the work-hours window of its day, a day of
\* the horizon, and overlaps no busy interval
FreeAt(t) ==
    /\ DateNaive(t) \in {HorizonDay(i) : i \in 1..Horizon}
    /\ DayStart(DateNaive(t)) <= t
    /\ t + duration_mins * 60 <= DayEnd(DateNaive(t))
    /\ \A b \in Busy : ~Overlap(t, t + duration_mins * 60, b[1], b[2])

\* C16: earliest fit -- no 15-minute boundary from now on and before the
\* returned slot's start could have taken the requested duration.
C16_EarliestFit ==
    slot.kind = "ok" =>
        \A t \in AlignedBetween(now, slot.start) : ~FreeAt(t)

\* C17: no slot in the past -- the first window starts at the later of the
\* work-day start and the rounded now, and every returned slot starts no
\* earlier than the rounded now, which is no earlier than now.
C17_NoSlotInPast ==
    Searched =>
        /\ windows # <<>> =>
              windows[1][1] = MaxT(DayStart(HorizonDay(1)), search_start)
        /\ slot.kind = "ok" =>
              (slot.start >= search_start /\ search_start >= now)

\* FocusBlocksConfig::validate on duration_minutes: the error message, or
\* "ok"
FocusBlocksConfig_validate(duration_minutes) ==
    IF duration_minutes = 0
    THEN "Focus block duration must be greater than 0"
    ELSE "ok"

\* C20: a search for a duration the configuration check rejects (zero
\* minutes) ends in an error, and no returned slot is of zero length.
C20_ZeroDurationRejected ==
    /\ (spc = "done" /\ FocusBlocksConfig_validate(duration_mins) # "ok") =>
          slot.kind \notin {"ok", "none"}
    /\ slot.kind = "ok" => slot.start < slot.end

\* C21: every window handed to find_gaps has its start no later than its end.
C21_WindowOrdered ==
    \A i \in DOMAIN windows : windows[i][1] <= windows[i][2]

(***************************************************************************)
(*        Further properties of find_gaps (SpecGaps)                       *)
(***************************************************************************)

\* The busy intervals that are not wholly outside the window
Surviving == { b \in Busy : ~(b[2] <= win[1]) /\ ~(b[1] >= win[2]) }

\* The sweep as specified: the cursor goes through the intervals by ascending
\* start, a gap is emitted when the cursor is before the next start, and a
\* last one when the cursor ends before the window end
RECURSIVE SpecifiedSweep(_, _)
SpecifiedSweep(S, cursor) ==
    IF S = {}
    THEN IF cursor < win[2] THEN <<<<cursor, win[2]>>>> ELSE <<>>
    ELSE LET b == CHOOSE x \in S : \A y \in S : x[1] <= y[1]
         IN (IF cursor < b[1] THEN <<<<cursor, b[1]>>>> ELSE <<>>)
                \o SpecifiedSweep(S \ {b}, MaxT(cursor, b[2]))

\* C27: find_gaps returns the gap list of the specified sweep, for every
\* event list and window, and every gap it returns is non-empty and inside
\* the window.
C27_GapsAreSweep ==
    (spc = "done" /\ gaps # NoGaps) =>
        /\ gaps = SpecifiedSweep(Surviving, win[1])
        /\ \A i \in DOMAIN gaps :
              /\ gaps[i][1] < gaps[i][2]
              /\ win[1] <= gaps[i][1]
              /\ gaps[i][2] <= win[2]

(***************************************************************************)
(*                 pace/retry.rs : with_retry (SpecRetry)                  *)
(***************************************************************************)

\* What one invocation of `operation` may return: the value, or one of two
\* errors
OpResults == {Ok(42), Err("timeout"), Err("server error")}

\* 2_u64.pow(attempt) * 100
RECURSIVE Pow2(_)
Pow2(n) == IF n = 0 THEN 1 ELSE 2 * Pow2(n - 1)

\* The product fits u64 up to attempt 57, which takes 2^57 * 100 ms of sleep
\* to reach; MaxRetries stays far below it.
BackoffMs(n) == Pow2(n) * 100

\* The guard `if attempt < max_retries` of the retrying arm
MayRetryOnceMore(n, max) == n <= max

MayRetry(n, max) == n < max

InitRetry ==
    /\ max_retries \in 0..MaxRetries
    /\ attempt = 0
    /\ invocations = <<>>
    /\ slept = 0
    /\ wret = NoRet
    /\ wpc = "loop"
    /\ IdleLock
    /\ IdleRev
    /\ IdleSched
    /\ IdleRound
    /\ IdleMap
    /\ IdleUpd
    /\ IdleCmd

\* One pass through the loop: operation() and the match on its result
Attempt(r) ==
    /\ wpc = "loop"
    /\ invocations' = Append(invocations, r)
    /\ IF r.kind = "ok"
       THEN /\ wret' = r
            /\ wpc' = "done"
            /\ UNCHANGED <<attempt, slept>>
       ELSE IF MayRetry(attempt, max_retries)
            THEN /\ slept' = slept + BackoffMs(attempt)
                 /\ attempt' = attempt + 1
                 /\ UNCHANGED <<wret, wpc>>
            ELSE /\ wret' = r
                 /\ wpc' = "done"
                 /\ UNCHANGED <<attempt, slept>>
    /\ UNCHANGED max_retries
    /\ UNCHANGED <<lockVars, revVars, schedVars, roundVars, mapVars, updVars, cmdVars>>

NextRetry == \E r \in OpResults : Attempt(r)

SpecRetry == InitRetry /\ [][NextRetry]_vars

\* C26: with_retry invokes the operation at most max_retries + 1 times, one
\* more invocation per pass of the loop and none after a success; it returns
\* the first success, or the last error once max_retries + 1 invocations have
\* failed.
C26_RetryBounded ==
    /\ Len(invocations) <= max_retries + 1
    /\ \A i \in 1..(Len(invocations) - 1) : invocations[i].kind = "err"
    /\ wpc = "loop" =>
          (Len(invocations) = attempt /\ attempt <= max_retries /\ wret = NoRet)
    /\ wpc = "done" =>
          /\ wret = invocations[Len(invocations)]
          /\ wret.kind = "err" => Len(invocations) = max_retries + 1

\* As in test_retry_succeeds_after_failures: two failures, then the value, in
\* three invocations of the four allowed.
C26_Witness ==
    /\ wpc = "done"
    /\ max_retries = 3
    /\ Len(invocations) = 3
    /\ wret = Ok(42)
    /\ slept = 300

(***************************************************************************)
(*        state.rs : the calendar mapping operations (SpecMap)             *)
(***************************************************************************)

WorkItemIds == {100, 200}
EventIds == {"event-old", "event-new"}
NoEvent == "none"

\* A CalendarMapping; synced stands for last_synced being Some
CalendarMapping(work_item_id, event_id, synced) ==
    [work_item_id |-> work_item_id, event_id |-> event_id, synced |-> synced]

\* .iter().find(|m| m.work_item_id == work_item_id): the index of the first
\* match, 0 for None
Find(ms, work_item_id) ==
    IF \E i \in DOMAIN ms : ms[i].work_item_id = work_item_id
    THEN CHOOSE i \in DOMAIN ms :
            /\ ms[i].work_item_id = work_item_id
            /\ \A j \in 1..(i - 1) : ms[j].work_item_id # work_item_id
    ELSE 0

upsert_push(ms, work_item_id, event_id) ==
    Append(ms, CalendarMapping(work_item_id, event_id, FALSE))

upsert_calendar_mapping(ms, work_item_id, event_id) ==
    LET existing == Find(ms, work_item_id)
    IN IF existing # 0
       THEN [ms EXCEPT ![existing] = CalendarMapping(work_item_id, event_id, TRUE)]
       ELSE Append(ms, CalendarMapping(work_item_id, event_id, FALSE))

get_calendar_event(ms, work_item_id) ==
    LET found == Find(ms, work_item_id)
    IN IF found # 0 THEN ms[found].event_id ELSE NoEvent

\* .retain(|m| m.work_item_id != work_item_id)
RECURSIVE Retain(_, _)
Retain(ms, work_item_id) ==
    IF ms = <<>> THEN <<>>
    ELSE IF Head(ms).work_item_id # work_item_id
         THEN <<Head(ms)>> \o Retain(Tail(ms), work_item_id)
         ELSE Retain(Tail(ms), work_item_id)

\* State::default()
InitMap ==
    /\ calendar_mappings = <<>>
    /\ latest = [id \in WorkItemIds |-> NoEvent]
    /\ removed = [called |-> FALSE, id |-> 0, ret |-> FALSE, existed |-> FALSE]
    /\ nops = 0
    /\ IdleLock
    /\ IdleRev
    /\ IdleSched
    /\ IdleRound
    /\ IdleRetry
    /\ IdleUpd
    /\ IdleCmd

Upsert(work_item_id, event_id) ==
    /\ nops < MaxOps
    /\ calendar_mappings' =
          upsert_calendar_mapping(calendar_mappings, work_item_id, event_id)
    /\ latest' = [latest EXCEPT ![work_item_id] = event_id]
    /\ nops' = nops + 1
    /\ UNCHANGED removed
    /\ UNCHANGED <<lockVars, revVars, schedVars, roundVars, retryVars, updVars, cmdVars>>

Remove(work_item_id) ==
    /\ nops < MaxOps
    /\ LET initial_len == Len(calendar_mappings)
           retained == Retain(calendar_mappings, work_item_id)
       IN /\ calendar_mappings' = retained
          /\ removed' = [called |-> TRUE, id |-> work_item_id,
                         ret |-> Len(retained) < initial_len,
                         existed |-> latest[work_item_id] # NoEvent]
    /\ latest' = [latest EXCEPT ![work_item_id] = NoEvent]
    /\ nops' = nops + 1
    /\ UNCHANGED <<lockVars, revVars, schedVars, roundVars, retryVars, updVars, cmdVars>>

NextMap ==
    \/ \E id \in WorkItemIds, ev \in EventIds : Upsert(id, ev)
    \/ \E id \in WorkItemIds : Remove(id)

SpecMap == InitMap /\ [][NextMap]_vars

\* C25: after any sequence of upserts and removes from the default state
\* there is at most one mapping per work item, get_calendar_event gives the
\* event of the latest upsert that no remove followed (None otherwise), and
\* remove returned true exactly when the work item was mapped.
C25_MappingsConsistent ==
    /\ \A id \in WorkItemIds :
          /\ Cardinality({i \in DOMAIN calendar_mappings :
                            calendar_mappings[i].work_item_id = id}) <= 1
          /\ get_calendar_event(calendar_mappings, id) = latest[id]
    /\ removed.called => (removed.ret <=> removed.existed)

\* A work item was mapped, mapped again to another event, and removed; the
\* other work item is still mapped.
C25_Witness ==
    /\ nops = 4
    /\ removed.called /\ removed.ret /\ removed.id = 100
    /\ Len(calendar_mappings) = 1
    /\ calendar_mappings[1] = CalendarMapping(200, "event-new", TRUE)
    /\ get_calendar_event(calendar_mappings, 100) = NoEvent

(***************************************************************************)
(*                 commands/devops.rs : update                             *)
(***************************************************************************)

\* None of Option<String> and of Option<u32>
NoUser == "none"
NoPriority == -1
NoTags == <<>>

\* Values of the three optional arguments: a user; priorities below, inside
\* and above the accepted range; a comma-separated tag list, already split
\* at the commas (the second piece keeps the blank that followed the comma)
Users == {NoUser, "alice"}
Priorities == {NoPriority, 0, 1, 4, 5}
TagInputs == {NoTags, <<"bug">>, <<"bug", " ui">>}

\* `!(1..=4).contains(&p)`, negated
PriorityAny(p) == TRUE

PriorityOk(p) == p \in 1..4

\* s.trim() on the pieces of the tag inputs
Trim(s) == IF s = " ui" THEN "ui" ELSE s

\* tags_input.split(',').map(|s| s.trim()).collect().join("; ")
FormatTags(pieces) ==
    [joined_with |-> "; ", parts |-> [i \in DOMAIN pieces |-> Trim(pieces[i])]]

\* JSON values of the operations: a string, a number, and the string that
\* joins the tags
JsonString(v) == [type |-> "string", text |-> v, number |-> 0, list |-> <<>>]
JsonNumber(n) == [type |-> "number", text |-> "", number |-> n, list |-> <<>>]
JsonJoined(f) ==
    [type |-> "string", text |-> f.joined_with, number |-> 0, list |-> f.parts]

\* json!({"op": "add", "path": path, "value": value})
Op(path, value) == [op |-> "add", path |-> path, value |-> value]

\* The operations vector, in the order the three fields are pushed
BuildOperations(a) ==
    (IF a.assigned_to # NoUser
     THEN <<Op("/fields/System.AssignedTo", JsonString(a.assigned_to))>> ELSE <<>>)
    \o (IF a.priority # NoPriority
        THEN <<Op("/fields/Microsoft.VSTS.Common.Priority",
                 JsonNumber(a.priority))>>
        ELSE <<>>)
    \o (IF a.tags # NoTags
        THEN <<Op("/fields/System.Tags", JsonJoined(FormatTags(a.tags)))>> ELSE <<>>)

\* config.devops.pat...context(..)? and client.get_work_item(id)?
UpdateFetch(ok) ==
    /\ upc = "start"
    /\ IF ~update_args.pat
       THEN /\ upc' = "done"
            /\ uret' = Err("DevOps PAT not set")
            /\ UNCHANGED <<requests, item_rev>>
       ELSE /\ requests' = Append(requests, [method |-> "GET", id |-> gid])
            /\ IF ok
               THEN /\ item_rev' = remote[gid].rev
                    /\ upc' = "fetched"
                    /\ UNCHANGED uret
               ELSE /\ upc' = "done"
                    /\ uret' = Err("fetch")
                    /\ UNCHANGED item_rev
    /\ UNCHANGED <<remote, entry, gpc, gid, expected_rev, current, patches, gret, edits>>
    /\ UNCHANGED <<update_args, operations, bodies>>
    /\ UNCHANGED <<lockVars, schedVars, roundVars, retryVars, mapVars, cmdVars>>

\* From "Build JSON Patch operations" to the call of
\* client.update_work_item_with_rev(id, operations, Some(item.rev))
UpdateBuild ==
    /\ upc = "fetched"
    /\ IF update_args.priority # NoPriority /\ ~PriorityOk(update_args.priority)
       THEN /\ upc' = "done"
            /\ uret' = Err("Priority must be between 1 and 4")
            /\ UNCHANGED <<operations, gpc, expected_rev>>
       ELSE /\ operations' = BuildOperations(update_args)
            /\ IF operations' = <<>> \/ update_args.dry_run
               THEN /\ upc' = "done"
                    /\ uret' = Ok("nothing sent")
                    /\ UNCHANGED <<gpc, expected_rev>>
               ELSE /\ upc' = "calling"
                    /\ gpc' = "start"
                    /\ expected_rev' = item_rev
                    /\ UNCHANGED uret
    /\ UNCHANGED <<remote, entry, gid, current, requests, patches, gret, edits>>
    /\ UNCHANGED <<update_args, item_rev, bodies>>
    /\ UNCHANGED <<lockVars, schedVars, roundVars, retryVars, mapVars, cmdVars>>

\* The `?` on the client call, and the Ok(()) at the end
UpdateReturn ==
    /\ upc = "calling"
    /\ gpc = "done"
    /\ upc' = "done"
    /\ uret' = IF gret.kind = "ok" THEN Ok("updated") ELSE Err(gret.kind)
    /\ UNCHANGED revVars
    /\ UNCHANGED <<update_args, item_rev, operations, bodies>>
    /\ UNCHANGED <<lockVars, schedVars, roundVars, retryVars, mapVars, cmdVars>>

InitUpdate ==
    /\ remote = [i \in Ids |-> NewItem]
    /\ entry = "update_work_item_with_rev"
    /\ gpc = "idle"
    /\ gid \in Ids
    /\ expected_rev = NoRev
    /\ current = NoRev
    /\ requests = <<>>
    /\ patches = <<>>
    /\ gret = NoResult
    /\ edits = 0
    /\ update_args \in [assigned_to : Users, priority : Priorities,
                        tags : TagInputs, dry_run : BOOLEAN, pat : BOOLEAN]
    /\ item_rev = 0
    /\ operations = <<>>
    /\ bodies = <<>>
    /\ upc = "start"
    /\ uret = NoRet
    /\ IdleLock
    /\ IdleSched
    /\ IdleRound
    /\ IdleRetry
    /\ IdleMap
    /\ IdleCmd

NextUpdate ==
    \/ \E id \in Ids : ExternalEdit(id)
    \/ \E ok \in BOOLEAN : UpdateFetch(ok)
    \/ UpdateBuild
    \/ \E ok \in BOOLEAN : FetchAndCheck(ok)
    \/ \E outcome \in Outcomes : Patch(outcome)
    \/ UpdateReturn

SpecUpdate == InitUpdate /\ [][NextUpdate]_vars

(***************************************************************************)
(*                   Properties of update (SpecUpdate)                     *)
(***************************************************************************)

\* The fields the caller asked to set, as path and value
Requested ==
    (IF update_args.assigned_to # NoUser
     THEN {Op("/fields/System.AssignedTo",
              [type |-> "string", text |-> update_args.assigned_to,
               number |-> 0, list |-> <<>>])} ELSE {})
    \cup (IF update_args.priority # NoPriority
          THEN {Op("/fields/Microsoft.VSTS.Common.Priority",
                  [type |-> "number", text |-> "",
                   number |-> update_args.priority, list |-> <<>>])}
          ELSE {})
    \cup (IF update_args.tags # NoTags
          THEN {Op("/fields/System.Tags",
                   [type |-> "string", text |-> "; ", number |-> 0,
                    list |-> IF Len(update_args.tags) = 1
                             THEN <<"bug">> ELSE <<"bug", "ui">>])}
          ELSE {})

PatchesSent == Len(SelectSeq(requests, LAMBDA r : r.method = "PATCH"))

\* C24: update sends a PATCH only when dry_run is false, at least one of the
\* three fields is given and a given priority lies in 1..4; otherwise no
\* PATCH is sent and the remote record changes by nobody but other editors;
\* a PATCH that is sent is the only one and carries every requested field.
C24_UpdatePatchesOnce ==
    /\ PatchesSent <= 1
    /\ PatchesSent = Len(bodies)
    /\ PatchesSent = 1 =>
          /\ ~update_args.dry_run
          /\ Requested # {}
          /\ update_args.priority # NoPriority => update_args.priority \in 1..4
          /\ {bodies[1][i] : i \in DOMAIN bodies[1]} = Requested
          /\ Len(bodies[1]) = Cardinality(Requested)
    /\ (update_args.dry_run \/ Requested = {}
          \/ (update_args.priority # NoPriority
                /\ update_args.priority \notin 1..4)) =>
          /\ PatchesSent = 0
          /\ patches = <<>>
          /\ \A id \in Ids : remote[id].fields # "ops"
          /\ upc = "done" /\ uret.kind = "ok" => requests = <<GET(gid)>>

\* update returned Ok after one PATCH that carried all three fields, with
\* the tags reformatted
C24_Witness ==
    /\ upc = "done"
    /\ uret = Ok("updated")
    /\ PatchesSent = 1
    /\ Len(bodies[1]) = 3
    /\ update_args.tags = <<"bug", " ui">>
    /\ remote[gid].fields = "ops"

(***************************************************************************)
(*      commands/task.rs : start      commands/checkin.rs : checkin        *)
(***************************************************************************)

\* Option<CurrentTask>: the id and timer_id of the task, or None
NoTask == [id |-> 0, timer_id |-> "none"]
CurrentTask(id, timer_id) == [id |-> id, timer_id |-> timer_id]

\* state.json: not there, or the document last saved
NoStateFile == [exists |-> FALSE, current_task |-> NoTask]
Doc(task) == [exists |-> TRUE, current_task |-> task]

\* State::load: a missing file reads as State::default()
LoadTask(file) == IF file.exists THEN file.current_task ELSE NoTask

\* Option<Timer> of get_current_timer
NoTimer == [id |-> "none", work_item_id |-> 0]
Timer(id, work_item_id) == [id |-> id, work_item_id |-> work_item_id]

\* The id the server gives the timer that start_timer starts
NewTimerId == "T2"

\* How with_state_lock may end: Ok after the save; an error before the
\* rename (open, lock, load, closure or save failed), which leaves the file
\* as it was; an error of file.unlock() after the save
TxOutcomes == {"ok", "fail", "unlock_err"}

TxSaves(o) == o \in {"ok", "unlock_err"}

\* How the async block of the focus scheduling may end: the event created,
\* list_events failing, find_next_slot returning its no-slot error,
\* create_event failing
SearchFailed == "Could not find available slot in next 7 days"

FocusOutcomes ==
    {"created", "list_events failed", SearchFailed, "create_event failed"}

\* The requests the async block sends before it ends
FocusCalls(by, outcome) ==
    <<[by |-> by, req |-> "list_events"]>>
    \o (IF outcome \in {"created", "create_event failed"}
        THEN <<[by |-> by, req |-> "create_event"]>> ELSE <<>>)

\* `match result`: what the command does with the result of the async block
FocusErrorHandling(outcome) ==
    IF outcome = "created" THEN "created" ELSE "warning"

\* `if let Some(current_timer) = .. && current_timer.work_item_id != id`
AnyActiveTimer(t, id) == t # NoTimer

ConflictingTimer(t, id) == t # NoTimer /\ t.work_item_id # id

\* config.get_devops_pat()? and devops_client.get_work_item(id)?
StartFetch(outcome) ==
    /\ start_cmd.pc = "begin"
    /\ IF outcome = "no_pat"
       THEN /\ start_cmd' = [start_cmd EXCEPT !.pc = "done", !.ret = Err("pat")]
            /\ UNCHANGED calls
       ELSE /\ calls' = Append(calls, [by |-> "start", req |-> "get_work_item"])
            /\ start_cmd' =
                 IF outcome = "ok"
                 THEN [start_cmd EXCEPT !.pc = "check_timer"]
                 ELSE [start_cmd EXCEPT !.pc = "done", !.ret = Err("fetch")]
    /\ UNCHANGED <<disk, timer, focus_blocks, warnings, checkin_cmd>>
    /\ UNCHANGED <<lockVars, revVars, schedVars, roundVars, retryVars, mapVars, updVars>>

\* pace_client.get_current_timer()? and the test for a conflicting timer
StartCheckTimer(ok) ==
    /\ start_cmd.pc = "check_timer"
    /\ calls' = Append(calls, [by |-> "start", req |-> "get_current_timer"])
    /\ start_cmd' =
         IF ~ok
         THEN [start_cmd EXCEPT !.pc = "done", !.ret = Err("timer check")]
         ELSE [start_cmd EXCEPT
                 !.seen = timer,
                 !.pc = IF ConflictingTimer(timer, start_cmd.id)
                           /\ ~start_cmd.dry_run
                        THEN "stop_timer" ELSE "start_timer"]
    /\ UNCHANGED <<disk, timer, focus_blocks, warnings, checkin_cmd>>
    /\ UNCHANGED <<lockVars, revVars, schedVars, roundVars, retryVars, mapVars, updVars>>

\* pace_client.stop_timer(0)?
StartStopTimer(ok) ==
    /\ start_cmd.pc = "stop_timer"
    /\ calls' = Append(calls, [by |-> "start", req |-> "stop_timer"])
    /\ IF ok
       THEN /\ timer' = NoTimer
            /\ start_cmd' = [start_cmd EXCEPT !.pc = "start_timer"]
       ELSE /\ start_cmd' = [start_cmd EXCEPT !.pc = "done", !.ret = Err("stop")]
            /\ UNCHANGED timer
    /\ UNCHANGED <<disk, focus_blocks, warnings, checkin_cmd>>
    /\ UNCHANGED <<lockVars, revVars, schedVars, roundVars, retryVars, mapVars, updVars>>

\* `let timer_id = if dry_run { None } else { start_timer(id, None)? .. }`
StartStartTimer(ok) ==
    /\ start_cmd.pc = "start_timer"
    /\ LET next == IF start_cmd.schedule_focus /\ ~start_cmd.dry_run
                   THEN "focus" ELSE "state"
       IN IF start_cmd.dry_run
          THEN /\ start_cmd' = [start_cmd EXCEPT !.pc = next]
               /\ UNCHANGED <<calls, timer>>
          ELSE /\ calls' = Append(calls, [by |-> "start", req |-> "start_timer"])
               /\ IF ok
                  THEN /\ timer' = Timer(NewTimerId, start_cmd.id)
                       /\ start_cmd' = [start_cmd EXCEPT !.pc = next,
                                                         !.timer_id = NewTimerId]
                  ELSE /\ start_cmd' = [start_cmd EXCEPT !.pc = "done",
                                                         !.ret = Err("start")]
                       /\ UNCHANGED timer
    /\ UNCHANGED <<disk, focus_blocks, warnings, checkin_cmd>>
    /\ UNCHANGED <<lockVars, revVars, schedVars, roundVars, retryVars, mapVars, updVars>>

\* "4. Schedule Focus Block if requested": the async block and the match on
\* its result
StartFocus(outcome) ==
    /\ start_cmd.pc = "focus"
    /\ calls' = calls \o FocusCalls("start", outcome)
    /\ focus_blocks' = IF outcome = "created"
                       THEN Append(focus_blocks, "start") ELSE focus_blocks
    /\ LET handling == FocusErrorHandling(outcome)
       IN /\ warnings' = IF handling = "warning"
                         THEN Append(warnings, [by |-> "start", text |-> outcome])
                         ELSE warnings
          /\ start_cmd' = [start_cmd EXCEPT !.pc = "state", !.focus = outcome]
    /\ UNCHANGED <<disk, timer, checkin_cmd>>
    /\ UNCHANGED <<lockVars, revVars, schedVars, roundVars, retryVars, mapVars, updVars>>

\* "4. Update State": with_state_lock and its closure
StartState(o) ==
    /\ start_cmd.pc = "state"
    /\ LET loaded == LoadTask(disk)
           task == IF start_cmd.dry_run
                   THEN loaded
                   ELSE CurrentTask(start_cmd.id, start_cmd.timer_id)
       IN IF TxSaves(o)
          THEN /\ disk' = Doc(task)
               /\ start_cmd' = [start_cmd EXCEPT
                     !.pc = "done",
                     !.loaded = loaded,
                     !.saves = @ + 1,
                     !.saved = task,
                     !.ret = IF o = "ok" THEN Ok("started") ELSE Err("unlock")]
          ELSE /\ start_cmd' = [start_cmd EXCEPT !.pc = "done",
                                                 !.ret = Err("state")]
               /\ UNCHANGED disk
    /\ UNCHANGED <<timer, calls, focus_blocks, warnings, checkin_cmd>>
    /\ UNCHANGED <<lockVars, revVars, schedVars, roundVars, retryVars, mapVars, updVars>>

\* "Get current task from state": the first transaction of checkin, and the
\* return when there is no current task
CheckinRead(o) ==
    /\ checkin_cmd.pc = "begin"
    /\ LET loaded == LoadTask(disk)
       IN /\ disk' = IF TxSaves(o) THEN Doc(loaded) ELSE disk
          /\ checkin_cmd' =
               IF o # "ok"
               THEN [checkin_cmd EXCEPT !.pc = "done", !.ret = Err("state")]
               ELSE IF loaded = NoTask
                    THEN [checkin_cmd EXCEPT !.pc = "done",
                                             !.ret = Ok("no active task")]
                    ELSE [checkin_cmd EXCEPT !.pc = "prompt",
                                             !.task_info = loaded]
    /\ UNCHANGED <<timer, calls, focus_blocks, warnings, start_cmd>>
    /\ UNCHANGED <<lockVars, revVars, schedVars, roundVars, retryVars, mapVars, updVars>>

\* What the user may type at "Your choice: "
Choices == {"1", "2", "3", "q"}

\* read_line and `match choice`; "q" and anything else leave at once
CheckinChoose(choice) ==
    /\ checkin_cmd.pc = "prompt"
    /\ checkin_cmd' =
         IF choice = "q"
         THEN [checkin_cmd EXCEPT !.pc = "done", !.choice = choice,
                                  !.ret = Ok("cancelled")]
         ELSE [checkin_cmd EXCEPT !.pc = "option", !.choice = choice]
    /\ UNCHANGED <<disk, timer, calls, focus_blocks, warnings, start_cmd>>
    /\ UNCHANGED <<lockVars, revVars, schedVars, roundVars, retryVars, mapVars, updVars>>

\* "1": the async block and the match on its result
CheckinFocus(outcome) ==
    /\ checkin_cmd.pc = "option"
    /\ checkin_cmd.choice = "1"
    /\ calls' = calls \o FocusCalls("checkin", outcome)
    /\ focus_blocks' = IF outcome = "created"
                       THEN Append(focus_blocks, "checkin") ELSE focus_blocks
    /\ LET handling == FocusErrorHandling(outcome)
       IN /\ warnings' = IF handling = "warning"
                         THEN Append(warnings, [by |-> "checkin", text |-> outcome])
                         ELSE warnings
          /\ checkin_cmd' =
               [checkin_cmd EXCEPT !.pc = "done", !.focus = outcome,
                                   !.ret = Ok("continued")]
    /\ UNCHANGED <<disk, timer, start_cmd>>
    /\ UNCHANGED <<lockVars, revVars, schedVars, roundVars, retryVars, mapVars, updVars>>

\* "2" and "3": config.devops.pat..context(..)? and the match on
\* pace_client.stop_timer(0); "2" returns after it
CheckinStopTimer(outcome) ==
    /\ checkin_cmd.pc = "option"
    /\ checkin_cmd.choice \in {"2", "3"}
    /\ IF outcome = "no_pat"
       THEN /\ checkin_cmd' = [checkin_cmd EXCEPT !.pc = "done",
                                                  !.ret = Err("pat")]
            /\ UNCHANGED <<calls, timer, warnings>>
       ELSE /\ calls' = Append(calls, [by |-> "checkin", req |-> "stop_timer"])
            /\ timer' = IF outcome = "ok" THEN NoTimer ELSE timer
            /\ warnings' = IF outcome = "ok" THEN warnings
                           ELSE Append(warnings, [by |-> "checkin",
                                                  text |-> "Could not stop timer"])
            /\ checkin_cmd' =
                 IF checkin_cmd.choice = "2"
                 THEN [checkin_cmd EXCEPT !.pc = "done", !.ret = Ok("blocked")]
                 ELSE [checkin_cmd EXCEPT !.pc = "clear"]
    /\ UNCHANGED <<disk, focus_blocks, start_cmd>>
    /\ UNCHANGED <<lockVars, revVars, schedVars, roundVars, retryVars, mapVars, updVars>>

\* "Clear current task from state": the second transaction of checkin
CheckinClear(o) ==
    /\ checkin_cmd.pc = "clear"
    /\ IF TxSaves(o)
       THEN /\ disk' = Doc(NoTask)
            /\ checkin_cmd' = [checkin_cmd EXCEPT
                  !.pc = "done",
                  !.cleared = LoadTask(disk),
                  !.ret = IF o = "ok" THEN Ok("cleared") ELSE Err("unlock")]
       ELSE /\ checkin_cmd' = [checkin_cmd EXCEPT !.pc = "done",
                                                  !.ret = Err("state")]
            /\ UNCHANGED disk
    /\ UNCHANGED <<timer, calls, focus_blocks, warnings, start_cmd>>
    /\ UNCHANGED <<lockVars, revVars, schedVars, roundVars, retryVars, mapVars, updVars>>

\* The state file and the server's timer before the two commands run, and
\* the arguments of task start
InitCmd ==
    /\ disk \in {NoStateFile, Doc(NoTask), Doc(CurrentTask(7, "T1")),
                 Doc(CurrentTask(9, "T1"))}
    /\ timer \in {NoTimer, Timer("T1", 7), Timer("T1", 9)}
    /\ calls = <<>>
    /\ focus_blocks = <<>>
    /\ warnings = <<>>
    /\ \E id \in Ids, dry \in BOOLEAN, focus \in BOOLEAN :
          start_cmd = [id |-> id, dry_run |-> dry, schedule_focus |-> focus,
                       pc |-> "begin", seen |-> NoTimer, timer_id |-> "none",
                       focus |-> "none", loaded |-> NoTask, saves |-> 0,
                       saved |-> NoTask, ret |-> NoRet]
    /\ checkin_cmd = [pc |-> "begin", task_info |-> NoTask, choice |-> "none",
                      focus |-> "none", cleared |-> NoTask, ret |-> NoRet]
    /\ IdleLock
    /\ IdleRev
    /\ IdleSched
    /\ IdleRound
    /\ IdleRetry
    /\ IdleMap
    /\ IdleUpd

NextCmd ==
    \/ \E outcome \in {"ok", "no_pat", "fetch_err"} : StartFetch(outcome)
    \/ \E ok \in BOOLEAN : StartCheckTimer(ok)
    \/ \E ok \in BOOLEAN : StartStopTimer(ok)
    \/ \E ok \in BOOLEAN : StartStartTimer(ok)
    \/ \E outcome \in FocusOutcomes : StartFocus(outcome)
    \/ \E o \in TxOutcomes : StartState(o)
    \/ \E o \in TxOutcomes : CheckinRead(o)
    \/ \E choice \in Choices : CheckinChoose(choice)
    \/ \E outcome \in FocusOutcomes : CheckinFocus(outcome)
    \/ \E outcome \in {"ok", "no_pat", "stop_err"} : CheckinStopTimer(outcome)
    \/ \E o \in TxOutcomes : CheckinClear(o)

SpecCmd == InitCmd /\ [][NextCmd]_vars

(***************************************************************************)
(*            Properties of task start and checkin (SpecCmd)               *)
(***************************************************************************)

\* The requests of one command, in the order it issued them
CallsBy(by) == SelectSeq(calls, LAMBDA c : c.by = by)

Issued(by, req) == \E i \in DOMAIN calls : calls[i] = [by |-> by, req |-> req]

\* task start has got past the step that stops a conflicting timer
PastStop ==
    \/ start_cmd.pc \in {"start_timer", "focus", "state"}
    \/ Issued("start", "start_timer")
    \/ start_cmd.pc = "done" /\ start_cmd.ret.kind = "ok"

\* The timer check of task start found a timer running for a work item other
\* than the requested one
SeenOtherTimer ==
    /\ start_cmd.seen.id # "none"
    /\ start_cmd.seen.work_item_id # start_cmd.id

\* C30: in a task start that is not a dry run, stop-timer is requested if
\* and only if the timer check found a timer running for another work item,
\* and before start-timer; current_task is written only after start-timer
\* succeeded, with the requested id and the id of the timer just started;
\* and when the fetch, the timer check, the stop or the start fails the
\* command has written nothing to the local state.
C30_StartOrdering ==
    ~start_cmd.dry_run =>
        /\ Issued("start", "stop_timer") =>
              SeenOtherTimer
        /\ (PastStop /\ SeenOtherTimer) =>
              Issued("start", "stop_timer")
        /\ \A i, j \in DOMAIN calls :
              (calls[i] = [by |-> "start", req |-> "stop_timer"]
                 /\ calls[j] = [by |-> "start", req |-> "start_timer"]) => i < j
        /\ Len(SelectSeq(calls, LAMBDA c : c.by = "start"
                            /\ c.req \in {"stop_timer", "start_timer"})) <= 2
        /\ start_cmd.saves > 0 =>
              /\ Issued("start", "start_timer")
              /\ start_cmd.timer_id = NewTimerId
              /\ start_cmd.saved = CurrentTask(start_cmd.id, NewTimerId)
              /\ start_cmd.saves = 1
        /\ (start_cmd.pc = "done"
              /\ start_cmd.ret \in {Err("pat"), Err("fetch"), Err("timer check"),
                                    Err("stop"), Err("start")}) =>
              /\ start_cmd.saves = 0
              /\ start_cmd.saved = NoTask

\* task start for work item 9 found the timer of work item 7 running,
\* stopped it, started its own and recorded task 9 with the new timer.
C30_Witness ==
    /\ ~start_cmd.dry_run
    /\ start_cmd.pc = "done"
    /\ start_cmd.ret = Ok("started")
    /\ start_cmd.seen = Timer("T1", 7)
    /\ start_cmd.id = 9
    /\ CallsBy("start") = <<[by |-> "start", req |-> "get_work_item"],
                            [by |-> "start", req |-> "get_current_timer"],
                            [by |-> "start", req |-> "stop_timer"],
                            [by |-> "start", req |-> "start_timer"]>>
    /\ start_cmd.saved = CurrentTask(9, NewTimerId)

\* C29: the task that option 3 of checkin removes from the persisted state
\* in its second transaction is the task it read in its first one and
\* showed; a task made current in between is not cleared.
C29_ClearsOnlyShownTask ==
    (checkin_cmd.pc = "done" /\ checkin_cmd.choice = "3"
        /\ checkin_cmd.ret \in {Ok("cleared"), Err("unlock")}) =>
        checkin_cmd.cleared.id = checkin_cmd.task_info.id

\* C23: a dry-run task start requests no timer stop and no timer start,
\* creates no calendar event and does not write the local state: it saves
\* nothing, so the persisted current_task is the one it found.
C23_DryRunNoEffect ==
    start_cmd.dry_run =>
        /\ ~Issued("start", "stop_timer")
        /\ ~Issued("start", "start_timer")
        /\ ~Issued("start", "create_event")
        /\ \A i \in DOMAIN focus_blocks : focus_blocks[i] # "start"
        /\ start_cmd.saves = 0
        /\ start_cmd.saved = start_cmd.loaded

Warned(by, text) ==
    \E i \in DOMAIN warnings : warnings[i] = [by |-> by, text |-> text]

\* C22: when the slot search of task start (with focus
\* scheduling) or of checkin option 1 fails with the no-slot error, the
\* command returns that failure, and the error is not reported as a warning
\* of a command that goes on to succeed.
C22_SearchErrorPropagates ==
    /\ (start_cmd.pc = "done" /\ start_cmd.focus = SearchFailed) =>
          /\ start_cmd.ret.kind = "err"
          /\ ~Warned("start", SearchFailed)
    /\ (checkin_cmd.pc = "done" /\ checkin_cmd.focus = SearchFailed) =>
          /\ checkin_cmd.ret.kind = "err"
          /\ ~Warned("checkin", SearchFailed)

====
